---- MODULE Spec2Model ----
(***************************************************************************)
(* A model of go-completable-future.                                       *)
(*                                                                         *)
(* Part I  : package concurrent, CompletableFuture[T] (RunAsync,           *)
(*           SupplyAsync, execute, Wait, Get, Err, aggregate Wait).        *)
(* Part II : package futuretask, Task (PlanRun, PlanSupply, Execute, Run,  *)
(*           Get, Err).                                                    *)
(*                                                                         *)
(* Every goroutine is a process with a program counter; one action is one  *)
(* access to shared memory (a field, a channel, the atomic done flag).     *)
(***************************************************************************)
EXTENDS Integers, Sequences, FiniteSets, TLC

\* ------------------------------------------------------------------ bounds
\* number of futures (package concurrent) and of tasks (package futuretask)
NumFutures == 2
\* number of tasks whose supplier may produce nil instead of a value
NilSuppliers == 1

\* ------------------------------------------------------------ value domains
Futures == 1..NumFutures

\* `var empty T`: the zero value of T (T = int here)
Empty == 0

\* the values the supplier of future f may produce: a non-zero value of its
\* own (the tests' suppliers return their own index); Get never looks at
\* the value, only at the channel and the cache
ValuesOf(f) == {f}

\* the nil error
NoErr == <<>>

\* the error value future f's action returns when it fails (errors.New in
\* the callers: one distinct error per future)
ErrOf(f) == <<f>>

\* the nil *T of the field `result`
NilPtr == <<>>

\* the callers of the public API: the goroutine that created the futures
Callers == {"main"}

\* the goroutines that may hold a future: the one that created it and one
\* it handed the future to
Goroutines == {"main", "other"}

\* capacity of resultChan: make(chan T, 1)
ResultChanCap == 1

VARIABLES
    kind,        \* kind[f]: "supplier" (s != nil) or "runnable" (r != nil)
    resultChan,  \* resultChan[f]: the buffered values of the channel
    chanClosed,  \* chanClosed[f]: close(resultChan) has happened
    result,      \* result[f]: the *T cache, NilPtr or <<v>>
    done,        \* done[f]: the atomic.Bool
    err,         \* err[f]: the error holder
    epc,         \* epc[f]: where the goroutine `go future.execute()` is
    eres,        \* eres[f]: execute's local res
    eerr,        \* eerr[f]: execute's local err
    crashed,     \* the process has died of an unrecovered panic
    cpc,         \* cpc[c]: where caller c is
    cfut,        \* cfut[c]: the receiver of the method caller c is in
    cargs,       \* cargs[c]: the variadic `futures` of the aggregate Wait
    ci,          \* ci[c]: the loop index i of the aggregate Wait
    cres,        \* cres[c]: Get's local result
    cin,         \* cin[c]: "Result" while caller c is inside Result(), else "none"
    cwaited,     \* cwaited[c]: the call caller c made last was made on a member of
                 \* the aggregate Wait it had just returned from
    last,        \* last[c]: the call caller c returned from last, and what it returned
    invoked,     \* invoked[f]: how often the action of f has been invoked
    outcome,     \* outcome[f]: how the action ended: "none" yet, "ok", "err", "panic"
    recvs,       \* recvs[f]: how many values were received from resultChan[f]
    \* ---- package futuretask
    tkind,       \* tkind[t]: "supplier" (s != nil) or "runnable" (r != nil)
    tchan,       \* tchan[t]: the buffered values of task.resultChan
    tclosed,     \* tclosed[t]: close(task.resultChan) has happened
    tresult,     \* tresult[t]: task.result, Empty for nil
    terr,        \* terr[t]: task.err
    wpc,         \* wpc[t]: where the worker goroutine of member t is
    wres,        \* wres[t]: the worker's local res
    werr,        \* werr[t]: the worker's local err
    wg,          \* the sync.WaitGroup counter
    doneClosed,  \* close(doneChan) has happened
    errClosed,   \* close(errChan) has happened
    closer,      \* where the goroutine `wg.Wait(); close(...)` is
    mpc,         \* where the calling goroutine is
    mfut,        \* the receiver of the Task method the caller is in
    mres,        \* Task.Get's local result
    agg,         \* the aggregate call made: op, args, returned, ret
    tlast,       \* the Task.Get / Task.Err call returned from last, and what it returned
    tinvoked,    \* tinvoked[t]: how often the action of t has been invoked
    toutcome,    \* toutcome[t]: how the action ended: "none" yet, "ok", "err"
    tproduced    \* tproduced[t]: the value the supplier of t returned

futVars == <<kind, resultChan, chanClosed, result, done, err>>
execVars == <<epc, eres, eerr, invoked, outcome>>
callVars == <<cpc, cfut, cargs, ci, cres, cin, cwaited, last, recvs>>
cfVars == <<futVars, execVars, callVars>>

taskFields == <<tkind, tchan, tclosed, tresult, terr>>
workVars == <<wpc, wres, werr, tinvoked, toutcome, tproduced>>
syncVars == <<wg, doneClosed, errClosed, closer>>
mainVars == <<mpc, mfut, mres, agg, tlast>>
taskVars == <<taskFields, workVars, syncVars, mainVars>>

vars == <<cfVars, taskVars, crashed>>

\* ---------------------------------------------------------- construction
\* RunAsync / SupplyAsync: the struct literal and `go future.execute()`.
RunAsync(f) == kind[f] = "runnable"
SupplyAsync(f) == kind[f] = "supplier"

\* the struct literal &CompletableFuture[T]{}: neither r nor s, no channel,
\* and no `go future.execute()`, which only the two constructors contain
ZeroFuture(f) == kind[f] = "none"

Tasks == 1..NumFutures

\* the values the supplier of task t may produce: a value of its own or,
\* for the first NilSuppliers tasks, nil (the zero value of `any`, which
\* Task.Get compares task.result with)
TaskValuesOf(t) == IF t <= NilSuppliers THEN {Empty, t} ELSE {t}

\* what a caller remembers of the call it returned from last: the method,
\* its receivers, the value and the error it returned, and whether a Get
\* was served from the cached result
Returned(op, S, v, e, cached) ==
    [op |-> op, args |-> S, val |-> v, err |-> e, cached |-> cached]

\* PlanRun / PlanSupply: the struct literal; nothing is launched
PlanRun(t) == tkind[t] = "runnable"
PlanSupply(t) == tkind[t] = "supplier"

\* the tasks as the constructors leave them
TaskInit(kinds) ==
    /\ tkind \in kinds
    /\ \A t \in Tasks : PlanRun(t) \/ PlanSupply(t)
    /\ tchan = [t \in Tasks |-> <<>>]
    /\ tclosed = [t \in Tasks |-> FALSE]
    /\ tresult = [t \in Tasks |-> Empty]
    /\ terr = [t \in Tasks |-> NoErr]
    /\ wpc = [t \in Tasks |-> "idle"]
    /\ wres = [t \in Tasks |-> Empty]
    /\ werr = [t \in Tasks |-> NoErr]
    /\ wg = 0
    /\ doneClosed = FALSE
    /\ errClosed = FALSE
    /\ closer = "idle"
    /\ mpc = "idle"
    /\ mfut = 1
    /\ mres = Empty
    /\ agg = [op |-> "none", args |-> {}, returned |-> FALSE, ret |-> NoErr]
    /\ tlast = Returned("none", {}, Empty, NoErr, FALSE)
    /\ tinvoked = [t \in Tasks |-> 0]
    /\ toutcome = [t \in Tasks |-> "none"]
    /\ tproduced = [t \in Tasks |-> Empty]

\* the futures as the constructors leave them
FutureInit(kinds) ==
    /\ kind \in kinds
    /\ \A f \in Futures : RunAsync(f) \/ SupplyAsync(f) \/ ZeroFuture(f)
    /\ resultChan = [f \in Futures |-> <<>>]
    /\ chanClosed = [f \in Futures |-> FALSE]
    /\ result = [f \in Futures |-> NilPtr]
    /\ done = [f \in Futures |-> FALSE]
    /\ err = [f \in Futures |-> NoErr]
    /\ epc = [f \in Futures |-> IF ZeroFuture(f) THEN "unlaunched" ELSE "call"]
    /\ eres = [f \in Futures |-> Empty]
    /\ eerr = [f \in Futures |-> NoErr]
    /\ crashed = FALSE
    /\ cpc = [c \in Goroutines |-> "idle"]
    /\ cfut = [c \in Goroutines |-> 1]
    /\ cargs = [c \in Goroutines |-> <<>>]
    /\ ci = [c \in Goroutines |-> 1]
    /\ cres = [c \in Goroutines |-> Empty]
    /\ cin = [c \in Goroutines |-> "none"]
    /\ cwaited = [c \in Goroutines |-> FALSE]
    /\ last = [c \in Goroutines |-> Returned("none", {}, Empty, NoErr, FALSE)]
    /\ invoked = [f \in Futures |-> 0]
    /\ outcome = [f \in Futures |-> "none"]
    /\ recvs = [f \in Futures |-> 0]

\* a program that uses package concurrent
Init ==
    /\ FutureInit([Futures -> {"runnable", "supplier"}])
    /\ TaskInit({[t \in Tasks |-> "runnable"]})

\* a program that uses package futuretask
InitTask ==
    /\ FutureInit({[f \in Futures |-> "runnable"]})
    /\ TaskInit([Tasks -> {"runnable", "supplier"}])

\* ------------------------------------------------------------ execute()
\* Every step of the program needs a live process.
Alive == ~crashed

\* the statement after `resultChan <- res` / `r.run()`: record the error,
\* or fall through to the deferred done.Store(true)
AfterAction(e) == IF e # NoErr THEN "setErr" ELSE "storeDone"

\* mutant of ExecuteCallReturns: no `s != nil` test, every future pushes
\* what its action returned
ExecuteCallReturnsNoKindTest(f, v, e) ==
    /\ Alive
    /\ epc[f] = "call"
    /\ kind[f] = "runnable" => v = Empty
    /\ invoked' = [invoked EXCEPT ![f] = @ + 1]
    /\ outcome' = [outcome EXCEPT ![f] = IF e # NoErr THEN "err" ELSE "ok"]
    /\ eres' = [eres EXCEPT ![f] = v]
    /\ eerr' = [eerr EXCEPT ![f] = e]
    /\ epc' = [epc EXCEPT ![f] = "send"]
    /\ UNCHANGED <<futVars, callVars, crashed>>
    /\ UNCHANGED taskVars

\* lines 110-116: the degenerate check (close() is a no-op on a nil
\* channel), then line 121 `res, err := s.get()` / line 131
\* `err := r.run()`: the action returns a value (suppliers) and an error or nil
ExecuteCallReturns(f, v, e) ==
    /\ Alive
    /\ epc[f] = "call"
    /\ IF kind[f] \notin {"runnable", "supplier"}
       THEN /\ epc' = [epc EXCEPT ![f] = "storeDone"]
            /\ UNCHANGED <<eres, eerr, invoked, outcome>>
       ELSE /\ invoked' = [invoked EXCEPT ![f] = @ + 1]
            /\ outcome' = [outcome EXCEPT ![f] = IF e # NoErr THEN "err" ELSE "ok"]
            /\ IF kind[f] = "supplier"
               THEN /\ eres' = [eres EXCEPT ![f] = v]
                    /\ eerr' = [eerr EXCEPT ![f] = e]
                    /\ epc' = [epc EXCEPT ![f] = "send"]
               ELSE /\ v = Empty
                    /\ eres' = eres
                    /\ eerr' = [eerr EXCEPT ![f] = e]
                    /\ epc' = [epc EXCEPT ![f] = AfterAction(e)]
    /\ UNCHANGED <<futVars, callVars, crashed>>
    /\ UNCHANGED taskVars

\* the action panics: execute unwinds and runs its deferred call, line 108
\* `defer future.done.Store(true)`; nothing recovers, so the panic goes on
\* to the top of the goroutine
ExecuteCallPanics(f) ==
    /\ Alive
    /\ epc[f] = "call"
    /\ kind[f] \in {"runnable", "supplier"}
    /\ invoked' = [invoked EXCEPT ![f] = @ + 1]
    /\ outcome' = [outcome EXCEPT ![f] = "panic"]
    /\ done' = [done EXCEPT ![f] = TRUE]
    /\ epc' = [epc EXCEPT ![f] = "dying"]
    /\ UNCHANGED <<kind, resultChan, chanClosed, result, err, eres, eerr,
                   callVars, crashed>>
    /\ UNCHANGED taskVars

\* mutant of ExecuteSend: the value is pushed on the success path only
ExecuteSendOnSuccess(f) ==
    /\ Alive
    /\ epc[f] = "send"
    /\ resultChan' = [resultChan EXCEPT ![f] =
                        IF eerr[f] # NoErr THEN @ ELSE Append(@, eres[f])]
    /\ eres' = [eres EXCEPT ![f] = Empty]
    /\ epc' = [epc EXCEPT ![f] = AfterAction(eerr[f])]
    /\ UNCHANGED <<kind, chanClosed, result, done, err, eerr, invoked,
                   outcome, callVars, crashed>>
    /\ UNCHANGED taskVars

\* line 122 `resultChan <- res`: blocks while the buffer is full; on a
\* closed channel it panics, and the deferred done.Store(true) runs
ExecuteSend(f) ==
    /\ Alive
    /\ epc[f] = "send"
    /\ chanClosed[f] \/ Len(resultChan[f]) < ResultChanCap
    /\ IF chanClosed[f]
       THEN /\ epc' = [epc EXCEPT ![f] = "dying"]
            /\ done' = [done EXCEPT ![f] = TRUE]
            /\ UNCHANGED <<resultChan, eres>>
       ELSE /\ resultChan' = [resultChan EXCEPT ![f] = Append(@, eres[f])]
            /\ eres' = [eres EXCEPT ![f] = Empty]
            /\ epc' = [epc EXCEPT ![f] = AfterAction(eerr[f])]
            /\ done' = done
    /\ UNCHANGED <<kind, chanClosed, result, err, eerr, invoked, outcome,
                   callVars, crashed>>
    /\ UNCHANGED taskVars

\* mutant of ExecuteSetErr: the error is not recorded
ExecuteSetErrDrops(f) ==
    /\ Alive
    /\ epc[f] = "setErr"
    /\ eerr' = [eerr EXCEPT ![f] = NoErr]
    /\ epc' = [epc EXCEPT ![f] = "storeDone"]
    /\ UNCHANGED <<futVars, eres, invoked, outcome, callVars, crashed>>
    /\ UNCHANGED taskVars

\* mutant of ExecuteSetErr: done.Store(true) is not deferred, so the
\* `return` after `future.err = err` leaves execute without storing it
ExecuteSetErrReturns(f) ==
    /\ Alive
    /\ epc[f] = "setErr"
    /\ err' = [err EXCEPT ![f] = eerr[f]]
    /\ eerr' = [eerr EXCEPT ![f] = NoErr]
    /\ epc' = [epc EXCEPT ![f] = "finished"]
    /\ UNCHANGED <<kind, resultChan, chanClosed, result, done, eres,
                   invoked, outcome, callVars, crashed>>
    /\ UNCHANGED taskVars

\* lines 124 / 132 `future.err = err`
ExecuteSetErr(f) ==
    /\ Alive
    /\ epc[f] = "setErr"
    /\ err' = [err EXCEPT ![f] = eerr[f]]
    /\ eerr' = [eerr EXCEPT ![f] = NoErr]
    /\ epc' = [epc EXCEPT ![f] = "storeDone"]
    /\ UNCHANGED <<kind, resultChan, chanClosed, result, done, eres,
                   invoked, outcome, callVars, crashed>>
    /\ UNCHANGED taskVars

\* mutant of ExecuteStoreDone: done is stored at the end of execute instead
\* of in a deferred call, so the early returns of the error paths skip it
ExecuteStoreDoneAtEnd(f) ==
    /\ Alive
    /\ epc[f] = "storeDone"
    /\ done' = [done EXCEPT ![f] = (err[f] = NoErr)]
    /\ epc' = [epc EXCEPT ![f] = "finished"]
    /\ UNCHANGED <<kind, resultChan, chanClosed, result, err, eres, eerr,
                   invoked, outcome, callVars, crashed>>
    /\ UNCHANGED taskVars

\* line 108 `defer future.done.Store(true)` on a normal return
ExecuteStoreDone(f) ==
    /\ Alive
    /\ epc[f] = "storeDone"
    /\ done' = [done EXCEPT ![f] = TRUE]
    /\ epc' = [epc EXCEPT ![f] = "finished"]
    /\ UNCHANGED <<kind, resultChan, chanClosed, result, err, eres, eerr,
                   invoked, outcome, callVars, crashed>>
    /\ UNCHANGED taskVars

\* a panic that reaches the top of a goroutine ends the process
ProcessCrash(f) ==
    /\ Alive
    /\ epc[f] = "dying"
    /\ crashed' = TRUE
    /\ epc' = [epc EXCEPT ![f] = "dead"]
    /\ UNCHANGED <<futVars, eres, eerr, invoked, outcome, callVars>>
    /\ UNCHANGED taskVars

\* --------------------------------------------------- the callers' side
\* the members of S in ascending order: the variadic argument list
RECURSIVE SetToSeq(_)
SetToSeq(S) ==
    IF S = {} THEN <<>>
    ELSE LET m == CHOOSE x \in S : \A y \in S : x <= y
         IN <<m>> \o SetToSeq(S \ {m})

SeqToSet(q) == {q[i] : i \in 1..Len(q)}

\* mutant of FutureWait: one done.Load() with no loop around it
FutureWaitOnce(f) == TRUE

\* CompletableFuture.Wait, lines 99-105: the loop is left only by a
\* done.Load() that returns true
FutureWait(f) == done[f]

\* IsDone, lines 94-96: return future.done.Load()
IsDone(f) == done[f]

\* caller c goes on to the statement at pc, its locals as given
Goto(c, pc, f, r) ==
    /\ cpc' = [cpc EXCEPT ![c] = pc]
    /\ cfut' = [cfut EXCEPT ![c] = f]
    /\ cres' = [cres EXCEPT ![c] = r]

\* caller c returns from a method of future f; the frame's locals are gone
Return(c, op, f, v, e, cached) ==
    /\ Goto(c, "idle", 1, Empty)
    /\ last' = [last EXCEPT ![c] = Returned(op, {f}, v, e, cached)]
    /\ cin' = [cin EXCEPT ![c] = "none"]
    /\ UNCHANGED <<cargs, ci, cwaited>>

\* whether a call on future f follows an aggregate Wait the caller has just
\* returned from and f was a member of
FollowsWaitAll(c, f) == last[c].op = "WaitAll" /\ f \in last[c].args

\* caller c returns from the aggregate Wait(S)
ReturnWaitAll(c, S) ==
    /\ Goto(c, "idle", 1, Empty)
    /\ cwaited' = [cwaited EXCEPT ![c] = FALSE]
    /\ cin' = cin
    /\ cargs' = [cargs EXCEPT ![c] = <<>>]
    /\ ci' = [ci EXCEPT ![c] = 1]
    /\ last' = [last EXCEPT ![c] = Returned("WaitAll", S, Empty, NoErr, FALSE)]

\* Wait(futures...), lines 17-20: the call and the len(futures) == 0 test
CallWaitAll(c, S) ==
    /\ Alive
    /\ cpc[c] = "idle"
    /\ IF S = {}
       THEN ReturnWaitAll(c, S)
       ELSE /\ Goto(c, "waitAll", 1, Empty)
            /\ cargs' = [cargs EXCEPT ![c] = SetToSeq(S)]
            /\ ci' = [ci EXCEPT ![c] = 1]
            /\ cwaited' = [cwaited EXCEPT ![c] = FALSE]
            /\ UNCHANGED <<cin, last>>
    /\ UNCHANGED <<futVars, execVars, recvs, crashed>>
    /\ UNCHANGED taskVars

\* mutant of WaitAllStep: only futures[0] is waited for
WaitAllStepFirstOnly(c) ==
    /\ Alive
    /\ cpc[c] = "waitAll"
    /\ FutureWait(cargs[c][ci[c]])
    /\ ReturnWaitAll(c, SeqToSet(cargs[c]))
    /\ UNCHANGED <<futVars, execVars, recvs, crashed>>
    /\ UNCHANGED taskVars

\* Wait(futures...), lines 21-23: futures[i].Wait() returns, i advances
WaitAllStep(c) ==
    /\ Alive
    /\ cpc[c] = "waitAll"
    /\ FutureWait(cargs[c][ci[c]])
    /\ IF ci[c] + 1 > Len(cargs[c])
       THEN ReturnWaitAll(c, SeqToSet(cargs[c]))
       ELSE /\ ci' = [ci EXCEPT ![c] = @ + 1]
            /\ UNCHANGED <<cpc, cfut, cres, cargs, cwaited, cin, last>>
    /\ UNCHANGED <<futVars, execVars, recvs, crashed>>
    /\ UNCHANGED taskVars

\* Get returns v, from the cache or not: to its caller, or into Result,
\* lines 52-53, which goes on to `err := future.Err()`
GetReturnFrom(c, f, v, cached) ==
    IF cin[c] = "Result"
    THEN /\ Goto(c, "errWait", f, v)
         /\ UNCHANGED <<cargs, ci, cwaited, cin, last>>
    ELSE Return(c, "Get", f, v, NoErr, cached)

\* Get returns v, not from the cache
GetReturn(c, f, v) == GetReturnFrom(c, f, v, FALSE)

\* mutant of EnterGet: no s == nil test
EnterGetNoTest(c, f, how) ==
    /\ Goto(c, "getCache", f, Empty)
    /\ cin' = [cin EXCEPT ![c] = how]
    /\ UNCHANGED <<cargs, ci, last>>

\* the first statements of Get, lines 59-64: the s == nil test; `how` is
\* "none" for a call of Get and "Result" for the Get inside Result
EnterGet(c, f, how) ==
    IF kind[f] # "supplier"
    THEN IF how = "Result"
         THEN /\ Goto(c, "errWait", f, Empty)
              /\ cin' = [cin EXCEPT ![c] = how]
              /\ UNCHANGED <<cargs, ci, last>>
         ELSE /\ Goto(c, "idle", 1, Empty)
              /\ last' = [last EXCEPT ![c] = Returned("Get", {f}, Empty, NoErr, FALSE)]
              /\ UNCHANGED <<cargs, ci, cin>>
    ELSE /\ Goto(c, "getCache", f, Empty)
         /\ cin' = [cin EXCEPT ![c] = how]
         /\ UNCHANGED <<cargs, ci, last>>

\* Get, lines 59-64: the call and the s == nil test
CallGet(c, f) ==
    /\ Alive
    /\ cpc[c] = "idle"
    /\ cwaited' = [cwaited EXCEPT ![c] = FollowsWaitAll(c, f)]
    /\ EnterGet(c, f, "none")
    /\ UNCHANGED <<futVars, execVars, recvs, crashed>>
    /\ UNCHANGED taskVars

\* Result, lines 51-52: the call, and the call of Get in it
CallResult(c, f) ==
    /\ Alive
    /\ cpc[c] = "idle"
    /\ cwaited' = [cwaited EXCEPT ![c] = FollowsWaitAll(c, f)]
    /\ EnterGet(c, f, "Result")
    /\ UNCHANGED <<futVars, execVars, recvs, crashed>>
    /\ UNCHANGED taskVars

\* Get, lines 66-68: the cached result
GetCache(c) ==
    /\ Alive
    /\ cpc[c] = "getCache"
    /\ IF result[cfut[c]] # NilPtr
       THEN GetReturnFrom(c, cfut[c], result[cfut[c]][1], TRUE)
       ELSE /\ Goto(c, "getWait", cfut[c], Empty)
            /\ UNCHANGED <<cargs, ci, cwaited, cin, last>>
    /\ UNCHANGED <<futVars, execVars, recvs, crashed>>
    /\ UNCHANGED taskVars

\* mutant of GetWait: the wait consumes the flag, as with
\* done.CompareAndSwap(true, false)
GetWaitResets(c) ==
    /\ Alive
    /\ cpc[c] = "getWait"
    /\ FutureWait(cfut[c])
    /\ done' = [done EXCEPT ![cfut[c]] = FALSE]
    /\ Goto(c, "getLen", cfut[c], Empty)
    /\ UNCHANGED <<kind, resultChan, chanClosed, result, err, execVars,
                   cargs, ci, cwaited, cin, last, recvs, crashed>>
    /\ UNCHANGED taskVars

\* Get, line 70: future.Wait()
GetWait(c) ==
    /\ Alive
    /\ cpc[c] = "getWait"
    /\ FutureWait(cfut[c])
    /\ Goto(c, "getLen", cfut[c], Empty)
    /\ UNCHANGED <<futVars, execVars, cargs, ci, cwaited, cin, last, recvs, crashed>>
    /\ UNCHANGED taskVars

\* Get, lines 72-74: len(future.resultChan) == 0
GetLen(c) ==
    /\ Alive
    /\ cpc[c] = "getLen"
    /\ IF Len(resultChan[cfut[c]]) = 0
       THEN GetReturn(c, cfut[c], Empty)
       ELSE /\ Goto(c, "getRecv", cfut[c], Empty)
            /\ UNCHANGED <<cargs, ci, cwaited, cin, last>>
    /\ UNCHANGED <<futVars, execVars, recvs, crashed>>
    /\ UNCHANGED taskVars

\* mutant of GetRecv: no `if !ok` test, so the zero value received from a
\* closed channel is cached and the channel closed again
GetRecvNoOkTest(c) ==
    /\ Alive
    /\ cpc[c] = "getRecv"
    /\ Len(resultChan[cfut[c]]) > 0 \/ chanClosed[cfut[c]]
    /\ IF Len(resultChan[cfut[c]]) > 0
       THEN /\ Goto(c, "getStore", cfut[c], Head(resultChan[cfut[c]]))
            /\ resultChan' = [resultChan EXCEPT ![cfut[c]] = Tail(@)]
            /\ recvs' = [recvs EXCEPT ![cfut[c]] = @ + 1]
       ELSE /\ Goto(c, "getStore", cfut[c], Empty)
            /\ UNCHANGED <<resultChan, recvs>>
    /\ UNCHANGED <<cargs, ci, cwaited, cin, last>>
    /\ UNCHANGED <<kind, chanClosed, result, done, err, execVars, crashed>>
    /\ UNCHANGED taskVars

\* Get, lines 76-79: the receive; it blocks on an empty open channel and
\* yields ok = false on an empty closed one
GetRecv(c) ==
    /\ Alive
    /\ cpc[c] = "getRecv"
    /\ Len(resultChan[cfut[c]]) > 0 \/ chanClosed[cfut[c]]
    /\ IF Len(resultChan[cfut[c]]) > 0
       THEN /\ Goto(c, "getStore", cfut[c], Head(resultChan[cfut[c]]))
            /\ resultChan' = [resultChan EXCEPT ![cfut[c]] = Tail(@)]
            /\ recvs' = [recvs EXCEPT ![cfut[c]] = @ + 1]
            /\ UNCHANGED <<cargs, ci, cwaited, cin, last>>
       ELSE /\ GetReturn(c, cfut[c], Empty)
            /\ UNCHANGED <<resultChan, recvs>>
    /\ UNCHANGED <<kind, chanClosed, result, done, err, execVars, crashed>>
    /\ UNCHANGED taskVars

\* mutant of GetStore: the received value is not cached
GetStoreForgets(c) ==
    /\ Alive
    /\ cpc[c] = "getStore"
    /\ Goto(c, "getClose", cfut[c], cres[c])
    /\ UNCHANGED <<futVars, execVars, cargs, ci, cwaited, cin, last, recvs, crashed>>
    /\ UNCHANGED taskVars

\* Get, line 80: future.result = &result
GetStore(c) ==
    /\ Alive
    /\ cpc[c] = "getStore"
    /\ result' = [result EXCEPT ![cfut[c]] = <<cres[c]>>]
    /\ Goto(c, "getClose", cfut[c], cres[c])
    /\ UNCHANGED <<kind, resultChan, chanClosed, done, err, execVars,
                   cargs, ci, cwaited, cin, last, recvs, crashed>>
    /\ UNCHANGED taskVars

\* mutant of GetClose: Get returns the value and leaves the channel open
GetCloseKeepsOpen(c) ==
    /\ Alive
    /\ cpc[c] = "getClose"
    /\ GetReturn(c, cfut[c], cres[c])
    /\ UNCHANGED <<futVars, execVars, recvs, crashed>>
    /\ UNCHANGED taskVars

\* Get, lines 82-84, and close(), lines 138-145: close(resultChan), which
\* panics on a closed channel, then `return result`
GetClose(c) ==
    /\ Alive
    /\ cpc[c] = "getClose"
    /\ IF chanClosed[cfut[c]]
       THEN /\ crashed' = TRUE
            /\ UNCHANGED <<chanClosed, cpc, cfut, cres, cargs, ci, cwaited, cin, last>>
       ELSE /\ chanClosed' = [chanClosed EXCEPT ![cfut[c]] = TRUE]
            /\ GetReturn(c, cfut[c], cres[c])
            /\ crashed' = crashed
    /\ UNCHANGED <<kind, resultChan, result, done, err, execVars, recvs>>
    /\ UNCHANGED taskVars

\* Err, lines 88-89: the call
CallErr(c, f) ==
    /\ Alive
    /\ cpc[c] = "idle"
    /\ cwaited' = [cwaited EXCEPT ![c] = FollowsWaitAll(c, f)]
    /\ Goto(c, "errWait", f, Empty)
    /\ UNCHANGED <<futVars, execVars, cargs, ci, cin, last, recvs, crashed>>
    /\ UNCHANGED taskVars

\* mutant of ErrWait: Err does not wait
ErrNoWait(c) ==
    /\ Alive
    /\ cpc[c] = "errWait"
    /\ Goto(c, "errRead", cfut[c], cres[c])
    /\ UNCHANGED <<futVars, execVars, cargs, ci, cwaited, cin, last, recvs, crashed>>
    /\ UNCHANGED taskVars

\* Err, line 89: future.Wait()
ErrWait(c) ==
    /\ Alive
    /\ cpc[c] = "errWait"
    /\ FutureWait(cfut[c])
    /\ Goto(c, "errRead", cfut[c], cres[c])
    /\ UNCHANGED <<futVars, execVars, cargs, ci, cwaited, cin, last, recvs, crashed>>
    /\ UNCHANGED taskVars

\* mutant of ErrRead: reading the error takes it out of the future
ErrReadClears(c) ==
    /\ Alive
    /\ cpc[c] = "errRead"
    /\ Return(c, IF cin[c] = "Result" THEN "Result" ELSE "Err",
              cfut[c], cres[c], err[cfut[c]], FALSE)
    /\ err' = [err EXCEPT ![cfut[c]] = NoErr]
    /\ UNCHANGED <<kind, resultChan, chanClosed, result, done, execVars,
                   recvs, crashed>>
    /\ UNCHANGED taskVars

\* Err, line 90: return future.err, to the caller or to Result, lines
\* 53-54, which returns the pair
ErrRead(c) ==
    /\ Alive
    /\ cpc[c] = "errRead"
    /\ Return(c, IF cin[c] = "Result" THEN "Result" ELSE "Err",
              cfut[c], cres[c], err[cfut[c]], FALSE)
    /\ UNCHANGED <<futVars, execVars, recvs, crashed>>
    /\ UNCHANGED taskVars

\* ------------------------------------------------------ specification
Execute(f) ==
    \/ \E v \in (IF kind[f] = "supplier" THEN ValuesOf(f) ELSE {Empty}),
          e \in {NoErr, ErrOf(f)} :
          ExecuteCallReturns(f, v, e)
    \/ ExecuteSend(f)
    \/ ExecuteSetErr(f)
    \/ ExecuteStoreDone(f)

Caller(c) ==
    \/ \E S \in SUBSET Futures : CallWaitAll(c, S)
    \/ WaitAllStep(c)
    \/ \E f \in Futures : CallGet(c, f)
    \/ GetCache(c)
    \/ GetWait(c)
    \/ GetLen(c)
    \/ GetRecv(c)
    \/ GetStore(c)
    \/ GetClose(c)
    \/ \E f \in Futures : CallErr(c, f)
    \/ ErrWait(c)
    \/ ErrRead(c)
    \/ \E f \in Futures : CallResult(c, f)

Next ==
    \/ \E f \in Futures : Execute(f)
    \/ \E c \in Callers : Caller(c)

\* programs whose actions return
Spec == Init /\ [][Next]_vars

\* execute() when the action panics
ExecutePanic(f) ==
    \/ ExecuteCallPanics(f)
    \/ ProcessCrash(f)

NextPanic ==
    \/ \E f \in Futures : Execute(f)
    \/ \E f \in Futures : ExecutePanic(f)
    \/ \E c \in Callers : Caller(c)

\* programs whose actions return or panic
SpecPanic == Init /\ [][NextPanic]_vars

\* ======================================================= package futuretask
\* the caller goes on to the statement at pc, its locals as given
MainGoto(pc, t, r) ==
    /\ mpc' = pc
    /\ mfut' = t
    /\ mres' = r

\* mutant of Launch: wg.Add(len(futures) - 1)
LaunchShort(op, S) ==
    /\ wg' = Cardinality(S) - 1
    /\ wpc' = [t \in Tasks |-> IF t \in S THEN "call" ELSE wpc[t]]
    /\ closer' = "wait"
    /\ MainGoto("select", 1, Empty)
    /\ agg' = [op |-> op, args |-> S, returned |-> FALSE, ret |-> NoErr]
    /\ doneClosed' = FALSE
    /\ errClosed' = FALSE

\* Execute / Run, lines 26-69 / 86-125: wg.Add(len(futures)), the two
\* channels, one worker goroutine per member, and the closing goroutine
Launch(op, S) ==
    /\ wg' = Cardinality(S)
    /\ wpc' = [t \in Tasks |-> IF t \in S THEN "call" ELSE wpc[t]]
    /\ closer' = "wait"
    /\ MainGoto("select", 1, Empty)
    /\ agg' = [op |-> op, args |-> S, returned |-> FALSE, ret |-> NoErr]
    /\ doneClosed' = FALSE
    /\ errClosed' = FALSE

\* the aggregate call returns e to its caller
AggReturn(e) ==
    /\ MainGoto("idle", 1, Empty)
    /\ agg' = [agg EXCEPT !.returned = TRUE, !.ret = e]

\* mutant of CallExecute: no len(futures) == 0 test
CallExecuteNoTest(S) ==
    /\ Alive
    /\ mpc = "idle"
    /\ agg.op = "none"
    /\ Launch("Execute", S)
    /\ UNCHANGED <<taskFields, wres, werr, tinvoked, toutcome, tproduced,
                   tlast, cfVars, crashed>>

\* Execute, lines 21-69: the call, the len(futures) == 0 test, the launch
CallExecute(S) ==
    /\ Alive
    /\ mpc = "idle"
    /\ agg.op = "none"
    /\ IF S = {}
       THEN /\ MainGoto("idle", 1, Empty)
            /\ agg' = [op |-> "Execute", args |-> S, returned |-> TRUE,
                       ret |-> NoErr]
            /\ UNCHANGED <<wpc, syncVars>>
       ELSE Launch("Execute", S)
    /\ UNCHANGED <<taskFields, wres, werr, tinvoked, toutcome, tproduced,
                   tlast, cfVars, crashed>>

\* Run, lines 81-125: the call, the len(futures) == 0 test, the launch
CallRun(S) ==
    /\ Alive
    /\ mpc = "idle"
    /\ agg.op = "none"
    /\ IF S = {}
       THEN /\ MainGoto("idle", 1, Empty)
            /\ agg' = [op |-> "Run", args |-> S, returned |-> TRUE,
                       ret |-> NoErr]
            /\ UNCHANGED <<wpc, syncVars>>
       ELSE Launch("Run", S)
    /\ UNCHANGED <<taskFields, wres, werr, tinvoked, toutcome, tproduced,
                   tlast, cfVars, crashed>>

\* the goroutines of the earlier aggregate call have all ended
Quiescent ==
    /\ agg.returned
    /\ \A t \in Tasks : wpc[t] \in {"idle", "finished"}
    /\ closer \in {"idle", "finished"}

\* Execute, lines 21-69, called after an earlier aggregate call has ended,
\* with tasks of that call that have been passed once
CallExecuteAgain(S) ==
    /\ Alive
    /\ mpc = "idle"
    /\ agg.op # "none"
    /\ Quiescent
    /\ S # {} /\ S \subseteq agg.args
    /\ \A t \in S : tinvoked[t] <= 1
    /\ Launch("Execute", S)
    /\ UNCHANGED <<taskFields, wres, werr, tinvoked, toutcome, tproduced,
                   tlast, cfVars, crashed>>

\* Run, lines 81-125, called after an earlier aggregate call has ended
CallRunAgain(S) ==
    /\ Alive
    /\ mpc = "idle"
    /\ agg.op # "none"
    /\ Quiescent
    /\ S # {} /\ S \subseteq agg.args
    /\ \A t \in S : tinvoked[t] <= 1
    /\ Launch("Run", S)
    /\ UNCHANGED <<taskFields, wres, werr, tinvoked, toutcome, tproduced,
                   tlast, cfVars, crashed>>

\* where a worker goes when its action returned e: to `future.err = err`,
\* or to the end of the function and its deferred wg.Done()
WorkerAfterAction(e) == IF e # NoErr THEN "setErr" ELSE "wgDone"

\* worker, lines 43 / 54 (Run: 102 / 112): `res, err := s.get()` or
\* `err := r.run()`; the action returns a value (suppliers) and an error or nil
WorkerCall(t, v, e) ==
    /\ Alive
    /\ wpc[t] = "call"
    /\ tinvoked' = [tinvoked EXCEPT ![t] = @ + 1]
    /\ toutcome' = [toutcome EXCEPT ![t] = IF e # NoErr THEN "err" ELSE "ok"]
    /\ tproduced' = [tproduced EXCEPT ![t] = v]
    /\ werr' = [werr EXCEPT ![t] = e]
    /\ IF tkind[t] = "supplier"
       THEN /\ wres' = [wres EXCEPT ![t] = v]
            /\ wpc' = [wpc EXCEPT ![t] = "send"]
       ELSE /\ v = Empty
            /\ wres' = wres
            /\ wpc' = [wpc EXCEPT ![t] = WorkerAfterAction(e)]
    /\ UNCHANGED <<taskFields, syncVars, mainVars, cfVars, crashed>>

\* mutant of WorkerSend: the value is pushed on the success path only
WorkerSendOnSuccess(t) ==
    /\ Alive
    /\ wpc[t] = "send"
    /\ tchan' = [tchan EXCEPT ![t] =
                    IF werr[t] # NoErr THEN @ ELSE Append(@, wres[t])]
    /\ wres' = [wres EXCEPT ![t] = Empty]
    /\ wpc' = [wpc EXCEPT ![t] = WorkerAfterAction(werr[t])]
    /\ UNCHANGED <<tkind, tclosed, tresult, terr, werr, tinvoked, toutcome,
                   tproduced, syncVars, mainVars, cfVars, crashed>>

\* mutant of WorkerSend: resultChan is unbuffered, make(chan any), so the
\* push needs a Get that is receiving
WorkerSendUnbuffered(t) ==
    /\ Alive
    /\ wpc[t] = "send"
    /\ ~tclosed[t]
    /\ mpc = "getRecv" /\ mfut = t
    /\ MainGoto("getStore", t, wres[t])
    /\ wres' = [wres EXCEPT ![t] = Empty]
    /\ wpc' = [wpc EXCEPT ![t] = WorkerAfterAction(werr[t])]
    /\ UNCHANGED <<taskFields, werr, tinvoked, toutcome, tproduced, syncVars,
                   agg, tlast, cfVars, crashed>>

\* worker, line 44 (Run: 103) `result <- res`: blocks while the buffer is
\* full, panics on a closed channel
WorkerSend(t) ==
    /\ Alive
    /\ wpc[t] = "send"
    /\ tclosed[t] \/ Len(tchan[t]) < ResultChanCap
    /\ IF tclosed[t]
       THEN /\ crashed' = TRUE
            /\ UNCHANGED <<tchan, wres, wpc>>
       ELSE /\ tchan' = [tchan EXCEPT ![t] = Append(@, wres[t])]
            /\ wres' = [wres EXCEPT ![t] = Empty]
            /\ wpc' = [wpc EXCEPT ![t] = WorkerAfterAction(werr[t])]
            /\ crashed' = crashed
    /\ UNCHANGED <<tkind, tclosed, tresult, terr, werr, tinvoked, toutcome,
                   tproduced, syncVars, mainVars, cfVars>>

\* mutant of WorkerSetErr: the error is recorded but never sent to errChan
WorkerSetErrNoSend(t) ==
    /\ Alive
    /\ wpc[t] = "setErr"
    /\ terr' = [terr EXCEPT ![t] = werr[t]]
    /\ wpc' = [wpc EXCEPT ![t] = "wgDone"]
    /\ werr' = [werr EXCEPT ![t] = NoErr]
    /\ UNCHANGED <<tkind, tchan, tclosed, tresult, wres, tinvoked, toutcome,
                   tproduced, syncVars, mainVars, cfVars, crashed>>

\* mutant of WorkerSetErr: the closure shares the loop variable `future`, so
\* every worker writes the error of the last member
WorkerSetErrShared(t) ==
    /\ Alive
    /\ wpc[t] = "setErr"
    /\ terr' = [terr EXCEPT ![CHOOSE m \in agg.args : \A u \in agg.args : u <= m] = werr[t]]
    /\ wpc' = [wpc EXCEPT ![t] = IF agg.op = "Execute" THEN "sendErr" ELSE "wgDone"]
    /\ werr' = [werr EXCEPT ![t] = IF agg.op = "Execute" THEN @ ELSE NoErr]
    /\ UNCHANGED <<tkind, tchan, tclosed, tresult, wres, tinvoked, toutcome,
                   tproduced, syncVars, mainVars, cfVars, crashed>>

\* worker, lines 46 / 55 (Run: 105 / 113) `future.err = err`; a worker of
\* Execute goes on to `errChan <- err`, a worker of Run returns
WorkerSetErr(t) ==
    /\ Alive
    /\ wpc[t] = "setErr"
    /\ terr' = [terr EXCEPT ![t] = werr[t]]
    /\ wpc' = [wpc EXCEPT ![t] = IF agg.op = "Execute" THEN "sendErr" ELSE "wgDone"]
    /\ werr' = [werr EXCEPT ![t] = IF agg.op = "Execute" THEN @ ELSE NoErr]
    /\ UNCHANGED <<tkind, tchan, tclosed, tresult, wres, tinvoked, toutcome,
                   tproduced, syncVars, mainVars, cfVars, crashed>>

\* mutant of WorkerSendErr: Execute runs wg.Wait() before its select, so an
\* error is received only after the action of every member has returned
WorkerSendErrAfterAll(t) ==
    /\ Alive
    /\ wpc[t] = "sendErr"
    /\ mpc = "select"
    /\ \A u \in agg.args : wpc[u] # "call"
    /\ AggReturn(werr[t])
    /\ wpc' = [wpc EXCEPT ![t] = "wgDone"]
    /\ werr' = [werr EXCEPT ![t] = NoErr]
    /\ UNCHANGED <<taskFields, wres, tinvoked, toutcome, tproduced, syncVars,
                   tlast, cfVars, crashed>>

\* worker of Execute, lines 47 / 56 `errChan <- err` meeting line 72
\* `case err := <-errChan: return err`: errChan is unbuffered, so the send
\* completes only with the receive of the select; on a closed errChan the
\* send panics
WorkerSendErr(t) ==
    /\ Alive
    /\ wpc[t] = "sendErr"
    /\ errClosed \/ mpc = "select"
    /\ IF errClosed
       THEN /\ crashed' = TRUE
            /\ UNCHANGED <<wpc, werr, mpc, mfut, mres, agg>>
       ELSE /\ AggReturn(werr[t])
            /\ wpc' = [wpc EXCEPT ![t] = "wgDone"]
            /\ werr' = [werr EXCEPT ![t] = NoErr]
            /\ crashed' = crashed
    /\ UNCHANGED <<taskFields, wres, tinvoked, toutcome, tproduced, syncVars,
                   tlast, cfVars>>

\* worker, line 35 (Run: 94) `defer wg.Done()`
WorkerDone(t) ==
    /\ Alive
    /\ wpc[t] = "wgDone"
    /\ wg' = wg - 1
    /\ wpc' = [wpc EXCEPT ![t] = "finished"]
    /\ UNCHANGED <<taskFields, wres, werr, tinvoked, toutcome, tproduced,
                   doneClosed, errClosed, closer, mainVars, cfVars, crashed>>

\* mutant of CloserWait: the channels are closed without wg.Wait()
CloserNoWait ==
    /\ Alive
    /\ closer = "wait"
    /\ closer' = "closeDone"
    /\ UNCHANGED <<taskFields, workVars, wg, doneClosed, errClosed, mainVars,
                   cfVars, crashed>>

\* closing goroutine, line 66 (Run: 123) `wg.Wait()`
CloserWait ==
    /\ Alive
    /\ closer = "wait"
    /\ wg = 0
    /\ closer' = "closeDone"
    /\ UNCHANGED <<taskFields, workVars, wg, doneClosed, errClosed, mainVars,
                   cfVars, crashed>>

\* closing goroutine, line 67 (Run: 124) `close(doneChan)`
CloserCloseDone ==
    /\ Alive
    /\ closer = "closeDone"
    /\ doneClosed' = TRUE
    /\ closer' = IF agg.op = "Execute" THEN "closeErr" ELSE "finished"
    /\ UNCHANGED <<taskFields, workVars, wg, errClosed, mainVars, cfVars,
                   crashed>>

\* closing goroutine of Execute, line 68 `close(errChan)`
CloserCloseErr ==
    /\ Alive
    /\ closer = "closeErr"
    /\ errClosed' = TRUE
    /\ closer' = "finished"
    /\ UNCHANGED <<taskFields, workVars, wg, doneClosed, mainVars, cfVars,
                   crashed>>

\* Execute, lines 72-73: the select receives from the closed errChan, which
\* yields the nil error
ExecuteSelectErrClosed ==
    /\ Alive
    /\ mpc = "select"
    /\ agg.op = "Execute"
    /\ errClosed
    /\ AggReturn(NoErr)
    /\ UNCHANGED <<taskFields, workVars, syncVars, tlast,
                   cfVars, crashed>>

\* mutant of ExecuteSelectDone: the select has a default case
ExecuteSelectDefault ==
    /\ Alive
    /\ mpc = "select"
    /\ agg.op = "Execute"
    /\ AggReturn(NoErr)
    /\ UNCHANGED <<taskFields, workVars, syncVars, tlast,
                   cfVars, crashed>>

\* Execute, lines 74-75: the select receives from the closed doneChan
ExecuteSelectDone ==
    /\ Alive
    /\ mpc = "select"
    /\ agg.op = "Execute"
    /\ doneClosed
    /\ AggReturn(NoErr)
    /\ UNCHANGED <<taskFields, workVars, syncVars, tlast,
                   cfVars, crashed>>

\* mutant of RunSelectDone: the select has a default case
RunSelectDefault ==
    /\ Alive
    /\ mpc = "select"
    /\ agg.op = "Run"
    /\ AggReturn(NoErr)
    /\ UNCHANGED <<taskFields, workVars, syncVars, tlast,
                   cfVars, crashed>>

\* Run, lines 127-130: the select receives from the closed doneChan
RunSelectDone ==
    /\ Alive
    /\ mpc = "select"
    /\ agg.op = "Run"
    /\ doneClosed
    /\ AggReturn(NoErr)
    /\ UNCHANGED <<taskFields, workVars, syncVars, tlast,
                   cfVars, crashed>>

\* Task.Get returns v to its caller
TaskGetReturn(t, v, cached) ==
    /\ tlast' = Returned("Get", {t}, v, NoErr, cached)
    /\ MainGoto("idle", 1, Empty)

\* Task.Get, lines 153-158: the call and the s == nil test
CallTaskGet(t) ==
    /\ Alive
    /\ mpc = "idle"
    /\ agg.returned
    /\ IF tkind[t] # "supplier"
       THEN TaskGetReturn(t, Empty, FALSE)
       ELSE /\ MainGoto("getCache", t, Empty)
            /\ tlast' = tlast
    /\ UNCHANGED <<taskFields, workVars, syncVars, agg, cfVars, crashed>>

\* Task.Get, lines 160-162: the cached result
TaskGetCache ==
    /\ Alive
    /\ mpc = "getCache"
    /\ IF tresult[mfut] # Empty
       THEN TaskGetReturn(mfut, tresult[mfut], TRUE)
       ELSE /\ MainGoto("getLen", mfut, Empty)
            /\ tlast' = tlast
    /\ UNCHANGED <<taskFields, workVars, syncVars, agg, cfVars,
                   crashed>>

\* Task.Get, lines 164-166: len(task.resultChan) == 0
TaskGetLen ==
    /\ Alive
    /\ mpc = "getLen"
    /\ IF Len(tchan[mfut]) = 0
       THEN TaskGetReturn(mfut, Empty, FALSE)
       ELSE /\ MainGoto("getRecv", mfut, Empty)
            /\ tlast' = tlast
    /\ UNCHANGED <<taskFields, workVars, syncVars, agg, cfVars,
                   crashed>>

\* Task.Get, lines 168-171: the receive; it blocks on an empty open channel
\* and yields ok = false on an empty closed one
TaskGetRecv ==
    /\ Alive
    /\ mpc = "getRecv"
    /\ Len(tchan[mfut]) > 0 \/ tclosed[mfut]
    /\ IF Len(tchan[mfut]) > 0
       THEN /\ MainGoto("getStore", mfut, Head(tchan[mfut]))
            /\ tchan' = [tchan EXCEPT ![mfut] = Tail(@)]
            /\ tlast' = tlast
       ELSE /\ TaskGetReturn(mfut, Empty, FALSE)
            /\ tchan' = tchan
    /\ UNCHANGED <<tkind, tclosed, tresult, terr, workVars, syncVars, agg,
                   cfVars, crashed>>

\* Task.Get, line 172: task.result = result
TaskGetStore ==
    /\ Alive
    /\ mpc = "getStore"
    /\ tresult' = [tresult EXCEPT ![mfut] = mres]
    /\ MainGoto("getClose", mfut, Empty)
    /\ UNCHANGED <<tkind, tchan, tclosed, terr, workVars, syncVars, agg,
                   tlast, cfVars, crashed>>

\* Task.Get, lines 174-176: close(task.resultChan), which panics on a closed
\* channel, then `return task.result`
TaskGetClose ==
    /\ Alive
    /\ mpc = "getClose"
    /\ IF tclosed[mfut]
       THEN /\ crashed' = TRUE
            /\ UNCHANGED <<tclosed, mpc, mfut, mres, tlast>>
       ELSE /\ tclosed' = [tclosed EXCEPT ![mfut] = TRUE]
            /\ TaskGetReturn(mfut, tresult[mfut], FALSE)
            /\ crashed' = crashed
    /\ UNCHANGED <<tkind, tchan, tresult, terr, workVars, syncVars, agg,
                   cfVars>>

\* Task.Err, lines 180-182: return task.err
TaskErr(t) ==
    /\ Alive
    /\ mpc = "idle"
    /\ agg.returned
    /\ tlast' = Returned("Err", {t}, Empty, terr[t], FALSE)
    /\ UNCHANGED <<taskFields, workVars, syncVars, mpc, mfut, mres, agg,
                   cfVars, crashed>>

Worker(t) ==
    \/ \E v \in (IF tkind[t] = "supplier" THEN TaskValuesOf(t) ELSE {Empty}),
          e \in {NoErr, ErrOf(t)} :
          WorkerCall(t, v, e)
    \/ WorkerSend(t)
    \/ WorkerSetErr(t)
    \/ WorkerSendErr(t)
    \/ WorkerDone(t)

Closer ==
    \/ CloserWait
    \/ CloserCloseDone
    \/ CloserCloseErr

Main ==
    \/ \E S \in SUBSET Tasks : CallExecute(S)
    \/ \E S \in SUBSET Tasks : CallRun(S)
    \/ ExecuteSelectErrClosed
    \/ ExecuteSelectDone
    \/ RunSelectDone
    \/ \E t \in Tasks : CallTaskGet(t)
    \/ TaskGetCache
    \/ TaskGetLen
    \/ TaskGetRecv
    \/ TaskGetStore
    \/ TaskGetClose
    \/ \E t \in Tasks : TaskErr(t)

NextTask ==
    \/ \E t \in Tasks : Worker(t)
    \/ Closer
    \/ Main

SpecTask == InitTask /\ [][NextTask]_vars

\* -------------------------------- programs that share a future
\* a step of a goroutine inside Get
GetStep(c) ==
    \/ GetCache(c)
    \/ GetWait(c)
    \/ GetLen(c)
    \/ GetRecv(c)
    \/ GetStore(c)
    \/ GetClose(c)

\* a program that makes one future with a constructor of package
\* concurrent and hands it to a second goroutine
InitGet ==
    /\ FutureInit({k \in [Futures -> {"runnable", "supplier", "none"}] :
                      \E f \in Futures :
                          k[f] # "none" /\ \A g \in Futures \ {f} : k[g] = "none"})
    /\ TaskInit({[t \in Tasks |-> "runnable"]})

NextGet ==
    \/ \E f \in Futures : Execute(f)
    \/ \E c \in Goroutines, f \in Futures : ~ZeroFuture(f) /\ CallGet(c, f)
    \/ \E c \in Goroutines : GetStep(c)

\* the goroutines call Get on the future whenever they like; a goroutine
\* that can take a step of execute or inside Get is scheduled in the end
SpecGet ==
    /\ InitGet
    /\ [][NextGet]_vars
    /\ \A f \in Futures : WF_vars(Execute(f))
    /\ \A c \in Goroutines : WF_vars(GetStep(c))

\* --------------------------------------- programs with a zero-value future
\* a program that uses package concurrent and holds a future that no
\* constructor made
InitZeroFuture ==
    /\ FutureInit({k \in [Futures -> {"runnable", "supplier", "none"}] :
                      \E f \in Futures : k[f] = "none"})
    /\ TaskInit({[t \in Tasks |-> "runnable"]})

SpecZeroFuture == InitZeroFuture /\ [][Next]_vars

\* ================================================ programs of both packages
\* the program made no future with a constructor of package concurrent
NoFutures == \A f \in Futures : ZeroFuture(f)

\* a program that makes futures with the constructors of package concurrent
\* and calls nothing, or one that plans tasks with package futuretask and
\* passes some of them to Execute or Run
InitLaunch ==
    /\ FutureInit([Futures -> {"runnable", "supplier"}]
                    \cup {[f \in Futures |-> "none"]})
    /\ TaskInit([Tasks -> {"runnable", "supplier"}])

NextLaunch ==
    \/ \E f \in Futures : Execute(f)
    \/ \E S \in SUBSET Tasks : NoFutures /\ CallExecute(S)
    \/ \E S \in SUBSET Tasks : NoFutures /\ CallRun(S)
    \/ \E t \in Tasks : Worker(t)
    \/ Closer
    \/ ExecuteSelectErrClosed
    \/ ExecuteSelectDone
    \/ RunSelectDone

\* every goroutine that can take a step is scheduled in the end
SpecLaunch ==
    /\ InitLaunch
    /\ [][NextLaunch]_vars
    /\ \A f \in Futures : WF_vars(Execute(f))
    /\ \A t \in Tasks : WF_vars(Worker(t))

\* a program that has futures running and calls the aggregate operations of
\* both packages with no arguments
NextZero ==
    \/ \E f \in Futures : Execute(f)
    \/ \E c \in Callers : CallWaitAll(c, {})
    \/ CallExecute({})
    \/ CallRun({})

SpecZero == Init /\ [][NextZero]_vars

\* ------------------------------------ programs that call Execute once
\* a step of the worker of member t after its action has returned
WorkerAfterCall(t) ==
    \/ WorkerSend(t)
    \/ WorkerSetErr(t)
    \/ WorkerSendErr(t)
    \/ WorkerDone(t)

\* a select of Execute that can be left
ExecuteSelect ==
    \/ ExecuteSelectErrClosed
    \/ ExecuteSelectDone

NextExecute ==
    \/ \E S \in SUBSET Tasks : CallExecute(S)
    \/ \E t \in Tasks : Worker(t)
    \/ Closer
    \/ ExecuteSelect

\* every goroutine that can take a step is scheduled in the end; an action
\* need not return, so the call of an action is under no fairness
SpecExecute ==
    /\ InitTask
    /\ [][NextExecute]_vars
    /\ \A t \in Tasks : WF_vars(WorkerAfterCall(t))
    /\ WF_vars(Closer)
    /\ WF_vars(ExecuteSelect)

\* --------------------- programs that read the value and the error of a future
\* a program that makes futures with the constructors of package concurrent,
\* or one that plans tasks with package futuretask
InitValue ==
    \/ Init
    \/ /\ FutureInit({[f \in Futures |-> "none"]})
       /\ TaskInit([Tasks -> {"runnable", "supplier"}])

\* a step of the caller inside Task.Get
TaskGetStep ==
    \/ TaskGetCache
    \/ TaskGetLen
    \/ TaskGetRecv
    \/ TaskGetStore
    \/ TaskGetClose

\* the futures run and the caller calls Get and Err on them; or the caller
\* passes tasks to Execute and, when it has returned, calls Get
NextValue ==
    \/ \E f \in Futures : Execute(f)
    \/ \E c \in Callers, f \in Futures : ~ZeroFuture(f) /\ CallGet(c, f)
    \/ \E c \in Callers : GetStep(c)
    \/ \E c \in Callers, f \in Futures : ~ZeroFuture(f) /\ CallErr(c, f)
    \/ \E c \in Callers : ErrWait(c)
    \/ \E c \in Callers : ErrRead(c)
    \/ \E S \in SUBSET Tasks : NoFutures /\ CallExecute(S)
    \/ \E t \in Tasks : Worker(t)
    \/ Closer
    \/ ExecuteSelect
    \/ \E t \in Tasks : CallTaskGet(t)
    \/ TaskGetStep

SpecValue == InitValue /\ [][NextValue]_vars

\* ------------------------------------ programs that wait for a future
\* a step of execute after the action has returned
ExecuteAfterCall(f) ==
    \/ ExecuteSend(f)
    \/ ExecuteSetErr(f)
    \/ ExecuteStoreDone(f)

\* the futures a constructor made
Launched == {f \in Futures : ~ZeroFuture(f)}

\* a step of goroutine c inside Wait, Get, Err or Result
WaiterStep(c) ==
    \/ WaitAllStep(c)
    \/ GetStep(c)
    \/ ErrWait(c)
    \/ ErrRead(c)

NextWaiters ==
    \/ \E f \in Futures : Execute(f)
    \/ \E c \in Goroutines, S \in SUBSET Launched : CallWaitAll(c, S)
    \/ \E c \in Callers, f \in Launched : CallGet(c, f)
    \/ \E c \in Goroutines, f \in Launched : CallErr(c, f)
    \/ \E c \in Callers, f \in Launched : CallResult(c, f)
    \/ \E c \in Goroutines : WaiterStep(c)

\* the goroutine that made the future calls Wait, Get, Err and Result on it
\* whenever it likes, and the goroutine it handed the future to calls Wait
\* and Err (Get from two goroutines is SpecGet); a goroutine that can
\* take a step is scheduled in the end; an action need not return, so the
\* call of an action is under no fairness
SpecWaiters ==
    /\ InitGet
    /\ [][NextWaiters]_vars
    /\ \A f \in Futures : WF_vars(ExecuteAfterCall(f))
    /\ \A c \in Goroutines : WF_vars(WaiterStep(c))

\* ----------------------- programs that pass a task to a second aggregate call
\* the program passes one task to Execute or Run and, when that call has
\* ended, may pass it again; in between it may call Get
NextAgain ==
    \/ \E t \in Tasks : CallExecute({t})
    \/ \E t \in Tasks : CallRun({t})
    \/ \E t \in Tasks : CallExecuteAgain({t})
    \/ \E t \in Tasks : CallRunAgain({t})
    \/ \E t \in Tasks : Worker(t)
    \/ Closer
    \/ ExecuteSelect
    \/ RunSelectDone
    \/ \E t \in Tasks : CallTaskGet(t)
    \/ TaskGetStep

\* every action returns, and every goroutine that can take a step is
\* scheduled in the end
SpecAgain ==
    /\ InitTask
    /\ [][NextAgain]_vars
    /\ \A t \in Tasks : WF_vars(Worker(t))
    /\ WF_vars(Closer)
    /\ WF_vars(ExecuteSelect)
    /\ WF_vars(RunSelectDone)
    /\ WF_vars(TaskGetStep)

\* ================================================================ claims
\* ---- package concurrent, under Spec

\* C1: the aggregate Wait(f1..fN) has returned only in states where every
\* member is done, members whose action failed included.
C1_WaitAllReturnsWhenAllDone ==
    \A c \in Callers :
        last[c].op = "WaitAll" => \A f \in last[c].args : done[f]

\* the aggregate Wait over all futures has returned and a member failed
C1_Witness ==
    \E c \in Callers :
        /\ last[c].op = "WaitAll"
        /\ last[c].args = Futures
        /\ \E f \in Futures : outcome[f] = "err"

\* C2, under SpecPanic: a future whose action panicked is recovered: the process lives on,
\* and once the future is done its error is non-nil.
C2_PanicIsRecovered ==
    \A f \in Futures :
        outcome[f] = "panic" => /\ ~crashed
                                /\ done[f] => err[f] # NoErr

\* C3: every Get of a supplier future whose supplier returned yields the
\* value the supplier produced; the supplier is invoked once and the channel
\* is received from once, however many Gets there are.
C3_GetIsIdempotent ==
    \A f \in Futures :
        kind[f] = "supplier" =>
            /\ \A c \in Callers :
                  (last[c].op = "Get" /\ last[c].args = {f}) =>
                      /\ outcome[f] \in {"ok", "err"}
                      /\ last[c].val \in ValuesOf(f)
                      /\ last[c].cached => result[f] = <<last[c].val>>
            /\ invoked[f] <= 1
            /\ recvs[f] <= 1

\* a Get of a supplier future has returned the cached value: an earlier Get
\* received it from the channel
C3_Witness ==
    \E f \in Futures, c \in Callers :
        /\ kind[f] = "supplier"
        /\ outcome[f] = "ok"
        /\ last[c].op = "Get" /\ last[c].args = {f} /\ last[c].cached
        /\ last[c].val \in ValuesOf(f)
        /\ recvs[f] = 1

\* the caller is inside a method of a completed future
InMethodOfDone(c) ==
    /\ Alive
    /\ cpc[c] \notin {"idle", "waitAll"}
    /\ done[cfut[c]]

\* C4: for a supplier that returned (v, e) with e non-nil, every Get returns
\* v and every Err returns e, whichever is called first, and once the future
\* is done a caller inside Get or Err can always take its next step.
C4_ValueAndErrorBothObtainable ==
    \A f \in Futures :
        (kind[f] = "supplier" /\ outcome[f] = "err") =>
            /\ \A c \in Callers :
                  (last[c].op = "Get" /\ last[c].args = {f}) =>
                      last[c].val \in ValuesOf(f)
            /\ \A c \in Callers :
                  (last[c].op = "Err" /\ last[c].args = {f}) =>
                      last[c].err = ErrOf(f)
            /\ \A c \in Callers :
                  (InMethodOfDone(c) /\ cfut[c] = f) => ENABLED Caller(c)

\* Err of a supplier that returned an error has returned that error after
\* a Get took the value out of the channel
C4_Witness ==
    \E f \in Futures, c \in Callers :
        /\ kind[f] = "supplier"
        /\ outcome[f] = "err"
        /\ result[f] = <<f>>
        /\ last[c].op = "Err" /\ last[c].args = {f}
        /\ last[c].err = ErrOf(f)

\* ---- package futuretask, under SpecTask

\* the members whose action returned an error
Failed == {t \in agg.args : toutcome[t] = "err"}

\* the action of every member has returned
AllOutcomesKnown == \A t \in agg.args : toutcome[t] # "none"

\* C5: when exactly one member fails and all others succeed, Execute returns
\* that member's error, which is non-nil.
C5_ExecuteReturnsTheOnlyError ==
    (/\ agg.op = "Execute"
     /\ agg.returned
     /\ AllOutcomesKnown
     /\ Cardinality(Failed) = 1) =>
        /\ agg.ret # NoErr
        /\ \A t \in Failed : agg.ret = ErrOf(t)

\* Execute over all tasks returned while exactly one of them failed
C5_Witness ==
    /\ agg.op = "Execute"
    /\ agg.returned
    /\ agg.args = Tasks
    /\ AllOutcomesKnown
    /\ Cardinality(Failed) = 1
    /\ agg.ret # NoErr

\* C6: when two or more members fail, Execute returns one error, which is
\* non-nil and is the error recorded in one of the failing members; no
\* channel operation of Execute panics, and while Execute has not returned
\* some goroutine can take a step.
C6_ExecuteReturnsOneOfTheErrors ==
    /\ (/\ agg.op = "Execute"
        /\ agg.returned
        /\ AllOutcomesKnown
        /\ Cardinality(Failed) >= 2) =>
           /\ agg.ret # NoErr
           /\ \E t \in Failed : agg.ret = ErrOf(t) /\ terr[t] = agg.ret
    /\ agg.op = "Execute" => ~crashed
    /\ (agg.op = "Execute" /\ ~agg.returned) => ENABLED NextTask

\* Execute returned an error while a second failing member is still blocked
\* in its send to errChan
C6_Witness ==
    /\ agg.op = "Execute"
    /\ agg.returned
    /\ Cardinality(Failed) >= 2
    /\ agg.ret # NoErr
    /\ \E t \in Failed : wpc[t] = "sendErr"

\* C7: when no member has failed, Execute has returned nil and every
\* member's worker has finished; every Get of a supplier member after that
\* return yields the value that member's own supplier produced.
C7_ExecuteNoFailure ==
    (/\ agg.op = "Execute"
     /\ agg.returned
     /\ Failed = {}) =>
        /\ agg.ret = NoErr
        /\ \A t \in agg.args : wpc[t] = "finished" /\ toutcome[t] = "ok"
        /\ \A t \in agg.args :
              (tkind[t] = "supplier" /\ tlast.op = "Get" /\ tlast.args = {t}) =>
                  tlast.val = tproduced[t]

\* Execute over all tasks returned nil and Get returned a member's value
C7_Witness ==
    /\ agg.op = "Execute"
    /\ agg.returned
    /\ agg.ret = NoErr
    /\ agg.args = Tasks
    /\ \E t \in Tasks : /\ tkind[t] = "supplier"
                        /\ tproduced[t] = t
                        /\ tlast.op = "Get" /\ tlast.args = {t}
                        /\ tlast.val = t

RECURSIVE SumInvoked(_)
SumInvoked(S) ==
    IF S = {} THEN 0
    ELSE LET t == CHOOSE x \in S : TRUE
         IN tinvoked[t] + SumInvoked(S \ {t})

\* C8: when Execute over N runnable tasks has returned nil, every action has
\* been invoked exactly once and has returned: the invocations count N.
C8_ExecuteRunsEveryActionOnce ==
    (/\ agg.op = "Execute"
     /\ agg.returned
     /\ agg.ret = NoErr
     /\ \A t \in agg.args : tkind[t] = "runnable") =>
        /\ \A t \in agg.args : tinvoked[t] = 1 /\ toutcome[t] # "none"
        /\ SumInvoked(agg.args) = Cardinality(agg.args)

\* Execute over all tasks, all of them runnable, returned nil
C8_Witness ==
    /\ agg.op = "Execute"
    /\ agg.returned
    /\ agg.ret = NoErr
    /\ agg.args = Tasks
    /\ \A t \in Tasks : tkind[t] = "runnable" /\ tinvoked[t] = 1

\* the value of supplier t has been pushed to its channel (and may have been
\* taken out by Get since)
ValuePushed(t) ==
    \/ Len(tchan[t]) > 0
    \/ tclosed[t]
    \/ mfut = t /\ mpc \in {"getStore", "getClose"}

\* C9: Run has returned only in states where every member's worker has
\* finished: its action has returned, a supplier's value has been pushed and
\* an error has been recorded.
C9_RunReturnsWhenAllFinished ==
    (agg.op = "Run" /\ agg.returned) =>
        \A t \in agg.args :
            /\ wpc[t] = "finished"
            /\ toutcome[t] # "none"
            /\ tkind[t] = "supplier" => ValuePushed(t)
            /\ toutcome[t] = "err" => terr[t] # NoErr

\* Run over all tasks returned, one member having failed and one succeeded
C9_Witness ==
    /\ agg.op = "Run"
    /\ agg.returned
    /\ agg.args = Tasks
    /\ \E t \in Tasks : toutcome[t] = "err"
    /\ \E t \in Tasks : toutcome[t] = "ok"

\* C10: after Run returned, Err of a member that failed returns that
\* member's own error and Err of a member that succeeded returns nil.
C10_RunKeepsErrorsApart ==
    (agg.op = "Run" /\ agg.returned) =>
        \A t \in agg.args :
            /\ terr[t] = IF toutcome[t] = "err" THEN ErrOf(t) ELSE NoErr
            /\ (tlast.op = "Err" /\ tlast.args = {t}) =>
                  tlast.err = IF toutcome[t] = "err" THEN ErrOf(t) ELSE NoErr

\* Run returned, two members failed and Err of one of them returned its own
\* error
C10_Witness ==
    /\ agg.op = "Run"
    /\ agg.returned
    /\ \E t, u \in agg.args :
          /\ t # u
          /\ toutcome[t] = "err" /\ toutcome[u] = "err"
          /\ tlast.op = "Err" /\ tlast.args = {t}
          /\ tlast.err = ErrOf(t) /\ tlast.err # terr[u]

\* ---- package concurrent, under Spec

\* the value v of supplier f is where a Get finds it: in the channel, in the
\* cache, or in the hands of the Get that has received it and is about to
\* cache it
ValueAt(f, v) ==
    \/ resultChan[f] = <<v>>
    \/ result[f] = <<v>>
    \/ \E c \in Goroutines :
          cpc[c] = "getStore" /\ cfut[c] = f /\ cres[c] = v

\* C11: when the aggregate Wait has returned, the value of every supplier
\* member is in its channel or its cache and the action of every runnable
\* member has run and returned; a Get or Result called next on a supplier
\* member returns the value its supplier produced, which is not the zero
\* value.
C11_GetAfterWaitAll ==
    \A c \in Callers :
        /\ last[c].op = "WaitAll" =>
              \A f \in last[c].args :
                  /\ kind[f] = "supplier" =>
                        \E v \in ValuesOf(f) : ValueAt(f, v)
                  /\ kind[f] = "runnable" =>
                        invoked[f] = 1 /\ outcome[f] \in {"ok", "err"}
        /\ (last[c].op \in {"Get", "Result"} /\ cwaited[c]) =>
              \A f \in last[c].args :
                  kind[f] = "supplier" =>
                      last[c].val \in ValuesOf(f) /\ last[c].val # Empty

\* a Get called right after the aggregate Wait over all futures returned
\* the supplier's value, a runnable future being among the members
C11_Witness ==
    \E c \in Callers, f, g \in Futures :
        /\ last[c].op = "Get" /\ last[c].args = {f} /\ cwaited[c]
        /\ kind[f] = "supplier" /\ last[c].val = f
        /\ kind[g] = "runnable" /\ invoked[g] = 1

\* the statements of Get after the s == nil test
GetPcs == {"getCache", "getWait", "getLen", "getRecv", "getStore", "getClose"}

\* C12: Get of a runnable future returns the zero value and never gets to
\* a statement of Get that waits or receives, whether or not the action has
\* finished.
C12_GetOfRunnableIsImmediate ==
    \A c \in Callers :
        /\ cpc[c] \in GetPcs => kind[cfut[c]] = "supplier"
        /\ last[c].op = "Get" =>
              \A f \in last[c].args :
                  kind[f] = "runnable" => last[c].val = Empty

\* Get of a runnable future has returned while its action has not
C12_Witness ==
    \E c \in Callers, f \in Futures :
        /\ last[c].op = "Get" /\ last[c].args = {f}
        /\ kind[f] = "runnable"
        /\ last[c].val = Empty
        /\ ~done[f] /\ outcome[f] = "none"

\* the error the action of f returned
FinalErr(f) == IF outcome[f] = "err" THEN ErrOf(f) ELSE NoErr

\* C13: Get, Err and Result of a supplier future return only when the
\* future is done, and return the value the supplier produced and the error
\* it returned; a caller is past the wait of Get or Err only when the
\* future is done.
C13_SupplierAccessorsWaitForDone ==
    \A c \in Callers :
        /\ \A f \in Futures :
              (/\ kind[f] = "supplier"
               /\ last[c].args = {f}
               /\ last[c].op \in {"Get", "Err", "Result"}) =>
                  /\ done[f]
                  /\ last[c].op \in {"Get", "Result"} =>
                        last[c].val \in ValuesOf(f)
                  /\ last[c].op \in {"Err", "Result"} =>
                        last[c].err = FinalErr(f)
        /\ (/\ cpc[c] \in {"getLen", "getRecv", "getStore", "getClose", "errRead"}
            /\ kind[cfut[c]] = "supplier") => done[cfut[c]]

\* Result of a supplier that returned a value and an error has returned both
C13_Witness ==
    \E c \in Callers, f \in Futures :
        /\ kind[f] = "supplier" /\ outcome[f] = "err"
        /\ last[c].op = "Result" /\ last[c].args = {f}
        /\ last[c].val = f /\ last[c].err = ErrOf(f)

\* C17: in every state where the done flag of a future is true, execute has
\* finished (it writes nothing more), the error slot holds the error the
\* action returned, and a supplier's value has been sent: it is in the
\* channel, in the cache, or in the hands of the Get that received it.
C17_DoneImpliesFinal ==
    \A f \in Futures :
        IsDone(f) =>
            /\ epc[f] = "finished"
            /\ outcome[f] # "none"
            /\ err[f] = FinalErr(f)
            /\ kind[f] = "supplier" =>
                  /\ Len(resultChan[f]) + recvs[f] = 1
                  /\ \E v \in ValuesOf(f) : ValueAt(f, v)

\* a supplier future that returned an error is done, its value still in the
\* channel
C17_Witness ==
    \E f \in Futures :
        /\ IsDone(f)
        /\ kind[f] = "supplier" /\ outcome[f] = "err"
        /\ resultChan[f] = <<f>>
        /\ err[f] = ErrOf(f)

\* ---- package futuretask, under SpecTask

\* C14: Get of a supplier task and Err of a task that were passed to
\* Execute or Run return only when the action of the task has returned, and
\* they return the value its supplier produced and the error its action
\* returned.
C14_TaskAccessorsWaitForDone ==
    \A t \in agg.args :
        (/\ tlast.args = {t}
         /\ \/ tlast.op = "Get" /\ tkind[t] = "supplier"
            \/ tlast.op = "Err") =>
            /\ toutcome[t] # "none"
            /\ (tlast.op = "Get" /\ tkind[t] = "supplier") =>
                  tlast.val = tproduced[t]
            /\ tlast.op = "Err" =>
                  tlast.err = IF toutcome[t] = "err" THEN ErrOf(t) ELSE NoErr

\* ---- both packages, under SpecZero

\* C16: called with no futures, the aggregate Wait, Run and Execute have
\* returned as soon as they are called: the caller is never left inside the
\* call, Execute returns nil, no worker and no closing goroutine is
\* started and the WaitGroup is not touched.
C16_ZeroFuturesReturnAtOnce ==
    /\ \A c \in Callers : cpc[c] = "idle"
    /\ \A c \in Callers : last[c].op = "WaitAll" => last[c].args = {}
    /\ mpc = "idle"
    /\ agg.op # "none" => agg.args = {} /\ agg.returned /\ agg.ret = NoErr
    /\ wg = 0
    /\ closer = "idle"
    /\ \A t \in Tasks : wpc[t] = "idle"

\* Wait() and Execute() have both returned while a future is still running
C16_Witness ==
    /\ \E c \in Callers : last[c].op = "WaitAll" /\ last[c].args = {}
    /\ agg.op = "Execute" /\ agg.args = {} /\ agg.returned /\ agg.ret = NoErr
    /\ \E f \in Futures : ~done[f]

\* ---- package concurrent with a zero-value future, under SpecZeroFuture

\* C18: an aggregate Wait does not block on a member that has neither a
\* runnable nor a supplier: when Wait gets to such a member, the member is
\* done or its execute is about to mark it done.
C18_DegenerateIsTriviallyComplete ==
    \A c \in Callers :
        (cpc[c] = "waitAll" /\ ZeroFuture(cargs[c][ci[c]])) =>
            \/ done[cargs[c][ci[c]]]
            \/ ENABLED Execute(cargs[c][ci[c]])

\* ---- both packages, under SpecLaunch

\* C15, as amended: a future of package concurrent is launched by its
\* constructor: passed to no aggregate operation, it becomes done in the end,
\* with the error of its action recorded and a supplier's value sent. A task
\* of package futuretask is launched by Execute or Run: its action is
\* invoked only once it has been passed to one of them, and is then run in
\* the end.
C15_LaunchedByConstructorOrAggregate ==
    /\ ~NoFutures ~>
          \A f \in Futures :
              /\ done[f]
              /\ outcome[f] # "none"
              /\ err[f] = FinalErr(f)
              /\ kind[f] = "supplier" => resultChan[f] = <<f>>
    /\ [](\A t \in Tasks : tinvoked[t] > 0 => t \in agg.args)
    /\ (agg.op # "none") ~> (\A t \in agg.args : toutcome[t] # "none")

\* every future made by a constructor is done, no call having been made on
\* it
C15_Witness ==
    /\ \A f \in Futures : ~ZeroFuture(f) /\ done[f]
    /\ \E f \in Futures : outcome[f] = "err" /\ err[f] = ErrOf(f)
    /\ \A c \in Goroutines : cpc[c] = "idle" /\ last[c].op = "none"

\* C15, as stated: the action of every future and of every task is launched
\* by its constructor, so it is run in the end whether or not it is passed to
\* an aggregate operation.
C15_LaunchedByConstructor ==
    /\ ~NoFutures ~> (\A f \in Futures : outcome[f] # "none")
    /\ <>(\A t \in Tasks : toutcome[t] # "none")

\* ---- package concurrent with two goroutines calling Get, under SpecGet

\* C19: a goroutine that is inside Get of a future returns from it in the
\* end, whatever the other goroutine does with the same future, and no close
\* of the channel panics.
C19_ConcurrentGetReturns ==
    /\ \A c \in Goroutines : (cpc[c] # "idle") ~> (cpc[c] = "idle")
    /\ []Alive

\* one goroutine has drained the channel and not yet closed it while the
\* other one, past its len check, is blocked in the receive
C19_Witness ==
    \E c, d \in Goroutines :
        /\ c # d /\ cfut[c] = cfut[d]
        /\ cpc[c] = "getRecv"
        /\ cpc[d] \in {"getStore", "getClose"}
        /\ resultChan[cfut[c]] = <<>> /\ ~chanClosed[cfut[c]]

\* C20: every Get of a supplier future returns the value the supplier
\* produced, also when another goroutine calls Get on the same future at the
\* same time.
C20_ConcurrentGetsAgree ==
    \A c \in Goroutines : \A f \in Futures :
        (kind[f] = "supplier" /\ last[c].op = "Get" /\ last[c].args = {f}) =>
            last[c].val \in ValuesOf(f)

\* ---- package futuretask with one call of Execute, under SpecExecute

\* C21: once the action of a member of Execute has returned an error,
\* Execute returns in the end, with the error of a failed member, whether or
\* not the actions of the other members ever return.
C21_ExecuteReturnsOnFirstError ==
    (agg.op = "Execute" /\ Failed # {}) ~>
        (agg.returned /\ \E t \in Failed : agg.ret = ErrOf(t))

\* Execute has returned the error of a member while the action of another
\* member has not returned
C21_Witness ==
    /\ agg.op = "Execute"
    /\ agg.returned
    /\ \E t \in Failed : agg.ret = ErrOf(t)
    /\ \E u \in agg.args : wpc[u] = "call"

\* ---- both packages, reading values and errors, under SpecValue

\* a value is pushed to the channel of future f / task t in this step
Pushed(f) == Len(resultChan'[f]) > Len(resultChan[f])
TaskPushed(t) == Len(tchan'[t]) > Len(tchan[t])

\* the caller has taken the value of task t out of its channel
TaskValueTaken(t) ==
    \/ tclosed[t]
    \/ mfut = t /\ mpc \in {"getStore", "getClose"}

\* C22 as amended: the channel of a future is written at most once, by its
\* activation, with the value its supplier returned and after the supplier
\* returned, with or without an error; the cached result is written at most
\* once, with the value taken from the channel; neither is ever written for
\* a runnable future.
C22_ValueWrittenOnce ==
    [][/\ \A f \in Futures :
            /\ Pushed(f) =>
                  /\ kind[f] = "supplier" /\ outcome[f] \in {"ok", "err"}
                  /\ resultChan[f] = <<>> /\ recvs[f] = 0 /\ result[f] = NilPtr
                  /\ \E v \in ValuesOf(f) : resultChan'[f] = <<v>>
            /\ result'[f] # result[f] =>
                  /\ kind[f] = "supplier" /\ outcome[f] \in {"ok", "err"}
                  /\ result[f] = NilPtr /\ recvs[f] = 1
                  /\ \E v \in ValuesOf(f) : result'[f] = <<v>>
       /\ \A t \in Tasks :
            /\ TaskPushed(t) =>
                  /\ tkind[t] = "supplier" /\ toutcome[t] \in {"ok", "err"}
                  /\ tchan[t] = <<>> /\ ~TaskValueTaken(t) /\ tresult[t] = Empty
                  /\ tchan'[t] = <<tproduced[t]>>
            /\ tresult'[t] # tresult[t] =>
                  /\ tkind[t] = "supplier" /\ toutcome[t] \in {"ok", "err"}
                  /\ tresult[t] = Empty /\ ~tclosed[t]
                  /\ tresult'[t] = tproduced[t]]_vars

\* the value of a supplier that returned an error has been pushed, taken
\* out by a Get and cached, and the channel closed
C22_Witness ==
    \E f \in Futures :
        /\ kind[f] = "supplier" /\ outcome[f] = "err"
        /\ result[f] = <<f>> /\ recvs[f] = 1 /\ chanClosed[f]

\* C22: a supplier that returns a non-nil error never causes a value to be
\* written to the channel or to the cached result.
C22_NoValueWhenSupplierFails ==
    /\ \A f \in Futures :
          (kind[f] = "supplier" /\ outcome[f] = "err") =>
              resultChan[f] = <<>> /\ recvs[f] = 0 /\ result[f] = NilPtr
    /\ \A t \in Tasks :
          (tkind[t] = "supplier" /\ toutcome[t] = "err") =>
              tchan[t] = <<>> /\ ~TaskValueTaken(t) /\ tresult[t] = Empty

\* the value of supplier task t is where a Get finds it: in the channel, in
\* the hands of the Get that has received it, or in task.result
TaskValueAt(t) ==
    \/ tchan[t] = <<tproduced[t]>>
    \/ mfut = t /\ mpc = "getStore" /\ mres = tproduced[t]
    \/ tresult[t] = tproduced[t] /\ (tclosed[t] \/ (mfut = t /\ mpc = "getClose"))

\* C23: in every state where the error of a failed supplier is recorded,
\* where the future of a failed supplier is done, or where Execute has
\* returned the error of a supplier member, the value that supplier produced
\* has been pushed: it is in the channel, with the Get that took it, or in
\* the cached result.
C23_ValuePushedBeforeError ==
    /\ \A f \in Futures :
          (/\ kind[f] = "supplier"
           /\ err[f] # NoErr \/ (IsDone(f) /\ outcome[f] = "err")) =>
              \E v \in ValuesOf(f) : ValueAt(f, v)
    /\ \A t \in Tasks :
          (/\ tkind[t] = "supplier"
           /\ terr[t] # NoErr \/ (agg.returned /\ agg.ret = ErrOf(t))) =>
              TaskValueAt(t)

\* Execute has returned the error of a supplier member, and a Get called
\* afterwards has taken the member's value out of the channel and cached it
C23_Witness ==
    \E t \in Tasks :
        /\ tkind[t] = "supplier"
        /\ agg.op = "Execute" /\ agg.returned /\ agg.ret = ErrOf(t)
        /\ tresult[t] = t /\ tclosed[t]

\* ---- package concurrent, under Spec

\* C24: the done flag of a future is never reset: a step changes it only
\* from false to true, only as the last step of execute, and once execute
\* has finished the flag is true; so it changes exactly once, whether the
\* action succeeded or a supplier or a runnable returned an error.
C24_DoneIsMonotonic ==
    [][\A f \in Futures :
          /\ IsDone(f) => done'[f]
          /\ done'[f] # done[f] =>
                epc[f] = "storeDone" /\ epc'[f] = "finished"
          /\ epc[f] = "finished" => IsDone(f)]_vars

\* a future that failed and one that succeeded are both done, and the
\* caller has gone through the wait inside Get on one of them since
C24_Witness ==
    \E f, g \in Futures :
        /\ IsDone(f) /\ outcome[f] = "err"
        /\ IsDone(g) /\ outcome[g] = "ok"
        /\ \E c \in Callers :
              /\ last[c].op = "Get" /\ last[c].args \subseteq {f, g}
              /\ last[c].val # Empty

\* C25: the error slot of a future is written at most once and never
\* overwritten: a step changes it only from nil to the error the action
\* returned, in execute's `future.err = err`, and a future's activation
\* invokes one action, once, so no second error can arise.
C25_ErrWrittenOnce ==
    [][\A f \in Futures :
          /\ err[f] # NoErr => err'[f] = err[f]
          /\ err'[f] # err[f] =>
                /\ epc[f] = "setErr" /\ outcome[f] = "err"
                /\ err'[f] = ErrOf(f)
          /\ invoked'[f] <= 1]_vars

\* every activation has finished, a supplier failed, and Err has returned
\* its error to the caller
C25_Witness ==
    /\ \A g \in Futures : epc[g] = "finished"
    /\ \E f \in Futures, c \in Callers :
          /\ kind[f] = "supplier" /\ err[f] = ErrOf(f)
          /\ last[c].op \in {"Err", "Result"} /\ last[c].args = {f}
          /\ last[c].err = ErrOf(f)

\* ---- package concurrent with two goroutines waiting, under SpecWaiters

\* the futures goroutine c is waiting for or reading
Awaited(c) ==
    IF cpc[c] = "waitAll" THEN SeqToSet(cargs[c]) ELSE {cfut[c]}

\* C26: once the action of a future has returned, with or without an error,
\* the future becomes done in the end, and every goroutine that is inside
\* Wait, Get, Err or Result of futures whose actions have returned returns
\* in the end.
C26_WaitersReturnOnceActionReturned ==
    /\ \A f \in Futures : (outcome[f] # "none") ~> IsDone(f)
    /\ \A c \in Goroutines :
          (cpc[c] # "idle" /\ \A f \in Awaited(c) : outcome[f] # "none")
              ~> (cpc[c] = "idle")

\* the action has returned an error, the future is not done yet, and both
\* goroutines are blocked, one in the wait of Wait and one in that of Err
C26_Witness ==
    \E f \in Futures :
        /\ outcome[f] = "err" /\ ~IsDone(f)
        /\ cpc["main"] = "waitAll" /\ Awaited("main") = {f}
        /\ cpc["other"] = "errWait" /\ Awaited("other") = {f}

\* ---- package futuretask with one call of Execute, under SpecExecute

\* C27: a worker of Execute whose action has returned terminates in the
\* end, also when Execute has already returned an error, and once every
\* member's action has returned the closing goroutine finishes in the end.
C27_WorkersTerminate ==
    /\ \A t \in Tasks :
          (wpc[t] \in {"send", "setErr", "sendErr", "wgDone"})
              ~> (wpc[t] = "finished")
    /\ (agg.op = "Execute" /\ agg.args # {} /\ AllOutcomesKnown)
          ~> (closer = "finished")

\* ---- package futuretask with a task passed again, under SpecAgain

\* member t of the aggregate call made last had been passed to an earlier one
RePassed(t) ==
    /\ t \in agg.args
    /\ tinvoked[t] >= 2 \/ (tinvoked[t] = 1 /\ wpc[t] = "call")

\* a supplier task that was passed before is among the members
SupplierRePassed == \E t \in Tasks : tkind[t] = "supplier" /\ RePassed(t)

\* C28 as amended: a call of Run or Execute whose actions return returns in
\* the end when none of its members is a supplier task that was passed to
\* an earlier call: the push of such a call finds the channel empty and
\* open, and nothing panics. A runnable task may be passed again.
C28_CallOfFreshSuppliersReturns ==
    /\ (agg.op # "none" /\ ~agg.returned /\ ~SupplierRePassed) ~> agg.returned
    /\ [](\A t \in Tasks :
            (wpc[t] = "send" /\ ~RePassed(t)) =>
                (tchan[t] = <<>> /\ ~tclosed[t]))
    /\ [](crashed => SupplierRePassed)

\* a runnable task was passed to a second call, which has returned
C28_Witness ==
    \E t \in Tasks :
        /\ tkind[t] = "runnable"
        /\ agg.args = {t} /\ agg.returned
        /\ tinvoked[t] = 2

\* C28: every call of Run or Execute whose actions return returns in the
\* end, also when a member is a supplier task that was passed to an earlier
\* call, with or without a Get in between: no push finds the channel closed
\* and nothing panics.
C28_EveryCallReturns ==
    /\ (agg.op # "none" /\ ~agg.returned) ~> agg.returned
    /\ [](\A t \in Tasks : wpc[t] = "send" => ~tclosed[t])
    /\ []Alive

\* ---- package concurrent with two goroutines calling Get, under SpecGet

\* C29: for a future made by SupplyAsync, whatever the goroutines calling
\* Get do, the channel is sent to at most once, and exactly once when
\* execute is past its send; the send finds the channel empty and open, so
\* it neither blocks nor panics; a Get that is about to close the channel
\* finds it open, so it is closed at most once, and only after the one value
\* was received; the process never dies of a panic.
C29_ChannelProtocol ==
    /\ Alive
    /\ \A f \in Futures :
          kind[f] = "supplier" =>
              /\ epc[f] \notin {"dying", "dead"}
              /\ Len(resultChan[f]) + recvs[f] =
                    (IF epc[f] \in {"call", "send"} THEN 0 ELSE 1)
              /\ epc[f] = "send" => ~chanClosed[f]
              /\ chanClosed[f] => recvs[f] = 1 /\ resultChan[f] = <<>>
              /\ \A c \in Goroutines :
                    (cpc[c] = "getClose" /\ cfut[c] = f) => ~chanClosed[f]

\* both goroutines have called Get on the same supplier future, one took
\* the value and closed the channel, the other came back with the zero value
C29_Witness ==
    \E f \in Futures :
        /\ kind[f] = "supplier" /\ chanClosed[f] /\ recvs[f] = 1
        /\ \A c \in Goroutines :
              cpc[c] = "idle" /\ last[c].op = "Get" /\ last[c].args = {f}
        /\ \E c \in Goroutines : last[c].val = Empty /\ ~last[c].cached

====
